---------------------------- MODULE Spec2Model ----------------------------
(***************************************************************************)
(* honk-overlay: the Horn entity (src/src/horn.js) and the frame driver    *)
(* that owns the collection of live horns (window.onload, its draw loop    *)
(* and its chat-message handler).                                          *)
(*                                                                         *)
(* JavaScript runs every callback to completion, so each callback is one   *)
(* action.  What a callback did on the way (the order of the calls it      *)
(* made, the clock values it read, the error that ended it) is recorded in *)
(* the history variables tick, spawnObs and advanced.                      *)
(*                                                                         *)
(* Units: time in milliseconds; seconds and pixels in binary fixed point,   *)
(* 1 / Fraction the unit; velocity in px/s; rotationSpeed in 1/1000 rad/s  *)
(* and rotation in 1/(1000 * Fraction) rad; sines and Math.PI in           *)
(* thousandths.  Math.random() returns k / RandDenom.                      *)
(***************************************************************************)
EXTENDS Integers, Sequences, FiniteSets

VARIABLES
    now,            \* performance.now(), the wall clock
    started,        \* window.onload has passed its await (lines 49-56 ran)
    canvasContext,  \* what canvas.getContext("2d") returned
    images,         \* the four fetched images: state and intrinsic size
    horns,          \* the live collection
    lastTime,       \* timestamp of the previous frame
    rafPending,     \* callbacks queued with requestAnimationFrame
    frameTime,      \* the last timestamp the frame scheduler handed out
    ctxDepth,       \* depth of the rendering context's saved-state stack
    nextId,         \* identity of the next Horn object constructed
    tick,           \* history of the last run of draw(time)
    spawnObs,       \* history of the last spawn handleMessage attempted
    advanced        \* history: the deltas update() got, summed per live horn

vars == <<now, started, canvasContext, images, horns, lastTime, rafPending,
          frameTime, ctxDepth, nextId, tick, spawnObs, advanced>>

----------------------------------------------------------------------------
(* Bounds of the model *)

\* the clock moves on a grid of ClockStep milliseconds, MaxClock steps long
ClockStep == 1500
MaxClock == 5
\* Horn objects constructed in one run
MaxSpawns == 2
\* Math.random() is one of 0/RandDenom .. (RandDenom-1)/RandDenom
RandDenom == 4
\* intrinsic size of a decoded image
AssetWidth == 2
AssetHeight == 3
\* the deltas update() is tried with: up to MaxFrames frames of FrameDelta ms
FrameDelta == 16
MaxFrames == 2
\* calls of update() on one horn taken by itself
MaxAdvances == 1
\* numbers carry FractionBits binary digits after the point
FractionBits == 10

MaxTime == MaxClock * ClockStep
Fraction == 2 ^ FractionBits

(* Program constants *)

CanvasWidth == 800
CanvasHeight == 600
DefaultWidth == 48
DefaultMinTTL == 3000
DefaultMaxTTL == 5000
DefaultMaxRotationSpeed == 4
\* Math.PI, in thousandths
Pi == 3142

ImageNames == {"hornImage", "textHornImage", "clownImage", "twitchHornImage"}
\* the images whose fetched bytes may fail to decode: none, or one of these
BrokenSets == {{}, {"textHornImage"}}
Random == 0 .. (RandDenom - 1)

----------------------------------------------------------------------------
\* Op applied to the value of v: a LET whose value is computed once
With(v, Op(_)) == CHOOSE r \in {Op(x) : x \in {v}} : TRUE

(* Math.sin and Math.cos, in thousandths, of an angle in thousandths of a  *)
(* radian; the constructor only takes them at Pi*(isLeft+0.5) + offset     *)
(* with the offset within a quarter of Pi.                                 *)

\* sine of a small angle a (|a| <= Pi/4): a - a^3/6 + a^5/120
SinSmall(a) ==
    LET a2 == (a * a) \div 1000
        a3 == (a2 * a) \div 1000
        a5 == (((a3 * a) \div 1000) * a) \div 1000
    IN  a - (a3 \div 6) + (a5 \div 120)

\* cosine of a small angle a: 1 - a^2/2 + a^4/24 - a^6/720
CosSmall(a) ==
    LET a2 == (a * a) \div 1000
        a4 == (a2 * a2) \div 1000
        a6 == (a4 * a2) \div 1000
    IN  1000 - (a2 \div 2) + (a4 \div 24) - (a6 \div 720)

\* sin(Pi*(isLeft+0.5) + offset): cos(offset) at Pi/2, -cos(offset) at 3Pi/2
SinAngle(isLeft, offset) ==
    IF isLeft = 1 THEN 0 - CosSmall(offset) ELSE CosSmall(offset)

\* cos(Pi*(isLeft+0.5) + offset): -sin(offset) at Pi/2, sin(offset) at 3Pi/2
CosAngle(isLeft, offset) ==
    IF isLeft = 1 THEN SinSmall(offset) ELSE 0 - SinSmall(offset)

----------------------------------------------------------------------------
(* Horn *)

\* the value of options[key], or the default the destructuring gives a key
\* the options object does not hold
Opt(options, key, default) ==
    IF key \in options.given THEN options[key] ELSE default

\* an options object holding the keys of given
Options(given, width, height, minTTL, maxTTL, maxRotationSpeed) ==
    [given |-> given, width |-> width, height |-> height, minTTL |-> minTTL,
     maxTTL |-> maxTTL, maxRotationSpeed |-> maxRotationSpeed]

\* the options = {} of a call without a third argument
NoOptions == Options({}, 0, 0, 0, 0, 0)

\* context instanceof CanvasRenderingContext2D
ContextOK(context) == context = "CanvasRenderingContext2D"

\* a constructor that takes anything for an image
ImageAny(image) == TRUE

\* image instanceof HTMLImageElement
ImageOK(image) == image.kind = "HTMLImageElement"

\* a lifetime drawn from the closed range, its upper end included
TimeToLiveClosed(minTTL, maxTTL, r) ==
    minTTL + ((r + 1) * (maxTTL - minTTL)) \div RandDenom

\* minTTL + Math.random() * (maxTTL - minTTL)
TimeToLive(minTTL, maxTTL, r) ==
    minTTL + (r * (maxTTL - minTTL)) \div RandDenom

\* a spawn height drawn from the whole height of the canvas
SpawnYFullHeight(canvasHeight, r) ==
    (canvasHeight * Fraction) \div 2
       + ((2 * r - RandDenom) * canvasHeight * Fraction) \div (2 * RandDenom)

\* canvasHeight / 2 + (Math.random() - 0.5) * (canvasHeight / 2)
SpawnY(canvasHeight, r) ==
    (canvasHeight * Fraction) \div 2
       + ((2 * r - RandDenom) * canvasHeight * Fraction) \div (4 * RandDenom)

\* a launch angle that points back over the edge the horn enters from
LaunchXOutward(isLeft, angleOffset, speed) ==
    (CosSmall(angleOffset) * (IF isLeft = 1 THEN speed ELSE 0 - speed))
       \div 1000

\* Math.sin(angle) * speed
LaunchX(isLeft, angleOffset, speed) ==
    (SinAngle(isLeft, angleOffset) * speed) \div 1000

\* Math.cos(angle) * speed
LaunchY(isLeft, angleOffset, speed) ==
    (CosAngle(isLeft, angleOffset) * speed) \div 1000

\* new Horn(context, image, options) with the six Math.random() results rnd,
\* built at clock value clock; id is the identity of the new object
HornNew(context, image, options, rnd, clock, id) ==
    IF ~ContextOK(context)
    THEN [ok |-> FALSE, error |-> "TypeError"]
    ELSE IF ~ImageOK(image)
    THEN [ok |-> FALSE, error |-> "TypeError"]
    ELSE
    LET angleOffset == ((2 * rnd.angle - RandDenom) * Pi) \div (4 * RandDenom)
        speed == (rnd.speed * CanvasWidth) \div RandDenom
        isLeft == IF 2 * rnd.side < RandDenom THEN 1 ELSE 0
        width == Opt(options, "width", DefaultWidth)
        minTTL == Opt(options, "minTTL", DefaultMinTTL)
        maxTTL == Opt(options, "maxTTL", DefaultMaxTTL)
        maxRotationSpeed ==
            Opt(options, "maxRotationSpeed", DefaultMaxRotationSpeed)
    IN  [ok |-> TRUE,
         horn |->
           [id |-> id,
            image |-> image.name,
            width |-> width,
            \* width * (image.height / image.width), kept as a fraction:
            \* <<0, 0>> is the NaN an image without size gives
            height |-> IF "height" \in options.given
                       THEN <<options.height, 1>>
                       ELSE <<width * image.height, image.width>>,
            createdAt |-> clock,
            timeToLive |-> TimeToLive(minTTL, maxTTL, rnd.ttl),
            position |->
              [x |-> isLeft * CanvasWidth * Fraction,
               y |-> SpawnY(CanvasHeight, rnd.y)],
            velocity |->
              [x |-> LaunchX(isLeft, angleOffset, speed),
               y |-> LaunchY(isLeft, angleOffset, speed)],
            rotationSpeed |->
              ((4 * rnd.spin - 2 * RandDenom) * Pi * maxRotationSpeed)
                 \div RandDenom,
            rotation |-> 0]]

\* shouldUpdate with the lifetime's end counted as alive
ShouldUpdateInclusive(horn, clock) ==
    clock - horn.createdAt <= horn.timeToLive

\* shouldUpdate measuring the lifetime from the time origin, not from createdAt
ShouldUpdateFromOrigin(horn, clock) == clock < horn.timeToLive

\* horn.shouldUpdate() when performance.now() returns clock
ShouldUpdate(horn, clock) == clock - horn.createdAt < horn.timeToLive

\* deltaTime / 1000, rounded to the nearest multiple of 1 / Fraction
DtInSeconds(deltaTime) == (deltaTime * Fraction + 500) \div 1000

\* position.x += velocity.x * dtInSeconds, the same for y, and
\* this.rotation += rotationSpeed * dtInSeconds
Moved(horn, dtInSeconds) ==
    [horn EXCEPT
       !.position = [x |-> @.x + horn.velocity.x * dtInSeconds,
                     y |-> @.y + horn.velocity.y * dtInSeconds],
       !.rotation = @ + horn.rotationSpeed * dtInSeconds]

\* update that moves the horn by one frame at most
UpdateClamped(horn, deltaTime) ==
    Moved(horn, DtInSeconds(IF deltaTime > FrameDelta THEN FrameDelta
                            ELSE deltaTime))

\* update that takes a delta of zero for a missing one and moves by a frame
UpdateDefaultDelta(horn, deltaTime) ==
    Moved(horn, DtInSeconds(IF deltaTime = 0 THEN FrameDelta ELSE deltaTime))

\* update that also slows the horn down by a tenth of its speed
UpdateWithDrag(horn, deltaTime) ==
    [Moved(horn, DtInSeconds(deltaTime)) EXCEPT
       !.velocity = [x |-> (@.x * 9) \div 10, y |-> (@.y * 9) \div 10]]

\* horn.update(deltaTime)
Update(horn, deltaTime) == Moved(horn, DtInSeconds(deltaTime))

\* context.drawImage(image, ...) throws on an image in the broken state
DrawImageThrows(imgs, horn) == imgs[horn.image].state = "broken"

\* horn.draw() on a context whose saved-state stack is depth deep: the calls
\* it makes on the context, the depth it leaves and the error it throws
HornDraw(imgs, horn, depth) ==
    LET ev(op, d) == [op |-> op, id |-> horn.id, dt |-> 0, depth |-> d]
        head == <<ev("save", depth + 1), ev("translate", depth + 1),
                  ev("rotate", depth + 1), ev("drawImage", depth + 1)>>
    IN  IF DrawImageThrows(imgs, horn)
        THEN [calls |-> head, depth |-> depth + 1, error |-> "InvalidStateError"]
        ELSE [calls |-> Append(head, ev("restore", depth)),
              depth |-> depth, error |-> "none"]

----------------------------------------------------------------------------
(* The frame driver: window.onload and the closures draw and handleMessage *)

\* a filter that removes nothing
FilterKeepAll(hs, reads) == hs

\* horns.filter((horn) => horn.shouldUpdate()), the i-th call of
\* shouldUpdate reading the clock value reads[i]
RECURSIVE FilterHorns(_, _)
FilterHorns(hs, reads) ==
    IF hs = <<>> THEN <<>>
    ELSE (IF ShouldUpdate(Head(hs), Head(reads)) THEN <<Head(hs)>> ELSE <<>>)
            \o FilterHorns(Tail(hs), Tail(reads))

\* the call horn.update(dt) as the tick's history records it
UpdateCall(horn, dt, depth) ==
    [op |-> "update", id |-> horn.id, dt |-> dt, depth |-> depth]

\* an update pass over all horns followed by a draw pass over all horns
RECURSIVE DrawPass(_, _, _, _)
DrawPass(imgs, hs, i, depth) ==
    IF i > Len(hs)
    THEN [calls |-> <<>>, depth |-> depth, error |-> "none"]
    ELSE LET d == HornDraw(imgs, hs[i], depth)
         IN  IF d.error # "none" THEN d
             ELSE LET rest == DrawPass(imgs, hs, i + 1, d.depth)
                  IN  [calls |-> d.calls \o rest.calls, depth |-> rest.depth,
                       error |-> rest.error]

ForEachHornInPhases(imgs, hs, i, dt, depth) ==
    LET moved == [j \in 1 .. Len(hs) |-> Update(hs[j], dt)]
        drawn == DrawPass(imgs, moved, 1, depth)
    IN  [horns |-> moved,
         calls |-> [j \in 1 .. Len(hs) |-> UpdateCall(hs[j], dt, depth)]
                      \o drawn.calls,
         depth |-> drawn.depth, error |-> drawn.error]

\* horns.forEach((horn) => { horn.update(dt); horn.draw(); }) from index i:
\* the horns as the loop leaves them, the calls made, the depth of the
\* context's stack and the error that ended the loop early
RECURSIVE ForEachHorn(_, _, _, _, _)
ForEachHorn(imgs, hs, i, dt, depth) ==
    IF i > Len(hs)
    THEN [horns |-> <<>>, calls |-> <<>>, depth |-> depth, error |-> "none"]
    ELSE With(Update(hs[i], dt), LAMBDA h :
         With(HornDraw(imgs, h, depth), LAMBDA d :
         With(<<UpdateCall(hs[i], dt, depth)>> \o d.calls, LAMBDA first :
            IF d.error # "none"
            THEN [horns |-> <<h>> \o SubSeq(hs, i + 1, Len(hs)),
                  calls |-> first, depth |-> d.depth, error |-> d.error]
            ELSE With(ForEachHorn(imgs, hs, i + 1, dt, d.depth), LAMBDA rest :
                    [horns |-> <<h>> \o rest.horns,
                     calls |-> first \o rest.calls,
                     depth |-> rest.depth, error |-> rest.error]))))

\* a delta with a negative value replaced by zero
DeltaTimeClamped(time, last) == IF time < last THEN 0 ELSE time - last

\* const dt = time - lastTime
DeltaTime(time, last) == time - last

\* the clock values the calls of shouldUpdate read during one filter over n
\* horns: on the clock's grid one run of draw takes no time
ClockReads(n) == [i \in 1 .. n |-> now]

\* the timestamps the frame scheduler may hand to the next callback: the
\* time the frame began, which is the wall clock's value or one step before
\* it, and never before the previous frame's timestamp
FrameTimes ==
    {t \in {now - ClockStep, now} : t >= 0 /\ t >= frameTime}

NoTick ==
    [ran |-> FALSE, time |-> 0, lastTime |-> 0, depth |-> 0, before |-> <<>>,
     reads |-> <<>>, pruned |-> <<>>, calls |-> <<>>, error |-> "none"]

NoSpawn ==
    [matched |-> FALSE, image |-> "none", options |-> NoOptions, pushed |-> 0,
     error |-> "none"]

\* what the tick's history keeps of a horn the filter looked at
Seen(horn) ==
    [id |-> horn.id, createdAt |-> horn.createdAt,
     timeToLive |-> horn.timeToLive]

Ids(hs) == [i \in 1 .. Len(hs) |-> hs[i].id]

\* the images fetchImage resolved to, those of broken undecodable
Fetched(broken) ==
    [n \in ImageNames |->
       IF n \in broken
       THEN [name |-> n, kind |-> "HTMLImageElement", state |-> "broken",
             width |-> 0, height |-> 0]
       ELSE [name |-> n, kind |-> "HTMLImageElement", state |-> "available",
             width |-> AssetWidth, height |-> AssetHeight]]

\* the deltas summed per horn after a run of update calls: a horn that left
\* the collection counts from zero again
Advanced(sums, calls, hs) ==
    [id \in DOMAIN sums |->
       IF id \notin {hs[i].id : i \in 1 .. Len(hs)} THEN 0
       ELSE IF \E p \in 1 .. Len(calls) :
                  calls[p].op = "update" /\ calls[p].id = id
       THEN sums[id]
              + (CHOOSE d \in {calls[p].dt : p \in {q \in 1 .. Len(calls) :
                      calls[q].op = "update" /\ calls[q].id = id}} : TRUE)
       ELSE sums[id]]

TypeOK ==
    /\ now \in 0 .. MaxTime
    /\ started \in BOOLEAN
    /\ canvasContext \in {"CanvasRenderingContext2D", "null"}
    /\ DOMAIN images = ImageNames
    /\ Len(horns) <= MaxSpawns
    /\ rafPending \in 0 .. 1
    /\ frameTime \in 0 .. MaxTime
    /\ ctxDepth \in Nat
    /\ nextId \in 1 .. (MaxSpawns + 1)

Init ==
    /\ now = 0
    /\ started = FALSE
    /\ canvasContext \in {"CanvasRenderingContext2D", "null"}
    /\ \E broken \in BrokenSets : images = Fetched(broken)
    /\ horns = <<>>
    /\ lastTime = 0
    /\ rafPending = 0
    /\ frameTime = 0
    /\ ctxDepth = 0
    /\ nextId = 1
    /\ tick = NoTick
    /\ spawnObs = NoSpawn
    /\ advanced = [id \in 1 .. MaxSpawns |-> 0]

\* time passes
ClockAdvance ==
    /\ now + ClockStep <= MaxTime
    /\ now' = now + ClockStep
    /\ UNCHANGED <<started, canvasContext, images, horns, lastTime, rafPending,
                   frameTime, ctxDepth, nextId, tick, spawnObs, advanced>>

\* window.onload after its await: register handleMessage, take lastTime from
\* the wall clock, queue the first frame
Start ==
    /\ ~started
    /\ started' = TRUE
    /\ lastTime' = now
    /\ rafPending' = rafPending + 1
    /\ UNCHANGED <<now, canvasContext, images, horns, frameTime, ctxDepth,
                   nextId, tick, spawnObs, advanced>>

\* what one run of draw(time) does
DrawRun(time) ==
    LET entry == [ran |-> TRUE, time |-> time, lastTime |-> lastTime,
                  depth |-> ctxDepth,
                  before |-> [i \in 1 .. Len(horns) |-> Seen(horns[i])],
                  reads |-> ClockReads(Len(horns)),
                  pruned |-> <<>>, calls |-> <<>>, error |-> "none"]
    IN  IF canvasContext = "null"
        THEN \* canvasContext.clearRect throws
             [horns |-> horns, lastTime |-> lastTime, depth |-> ctxDepth,
              queued |-> 0,
              tick |-> [entry EXCEPT !.reads = <<>>, !.error = "TypeError"]]
        ELSE With(FilterHorns(horns, ClockReads(Len(horns))), LAMBDA pruned :
             With(DeltaTime(time, lastTime), LAMBDA dt :
             With(ForEachHorn(images, pruned, 1, dt, ctxDepth), LAMBDA loop :
                [horns |-> loop.horns,
                 \* a throw in the loop skips lastTime = time and
                 \* requestAnimationFrame(draw)
                 lastTime |-> IF loop.error # "none" THEN lastTime ELSE time,
                 queued |-> IF loop.error # "none" THEN 0 ELSE 1,
                 depth |-> loop.depth,
                 tick |-> [entry EXCEPT !.pruned = Ids(pruned),
                                        !.calls = loop.calls,
                                        !.error = loop.error]])))

\* the frame scheduler runs a queued draw callback
Draw ==
    /\ rafPending > 0
    /\ \E time \in FrameTimes :
          /\ \E r \in {DrawRun(time)} :
                 /\ horns' = r.horns
                 /\ lastTime' = r.lastTime
                 /\ ctxDepth' = r.depth
                 /\ rafPending' = rafPending - 1 + r.queued
                 /\ tick' = r.tick
                 /\ advanced' = Advanced(advanced, r.tick.calls, r.horns)
          /\ frameTime' = time
    /\ UNCHANGED <<now, started, canvasContext, images, nextId, spawnObs>>

\* a push that puts the new horn in front of the others
PushFront(hs, horn) == <<horn>> \o hs

\* horns.push(horn)
Push(hs, horn) == Append(hs, horn)

\* Math.random() returning k / RandDenom at each of its calls in one run of
\* handleMessage
RandomDraws(k) ==
    [pick |-> k, angle |-> k, speed |-> k, side |-> k, ttl |-> k, y |-> k,
     spin |-> k]

\* userstate of a chat message: badges.broadcaster and subscriber
Userstate(broadcaster, subscriber) ==
    [broadcaster |-> broadcaster, subscriber |-> subscriber]

\* the chat messages delivered: whether the text holds a trigger emote, who
\* sent it, and what Math.random() returns while it is handled
Messages ==
    {[matched |-> FALSE, userstate |-> Userstate(FALSE, FALSE),
      rnd |-> RandomDraws(0)],
     [matched |-> TRUE, userstate |-> Userstate(FALSE, FALSE),
      rnd |-> RandomDraws(0)],
     [matched |-> TRUE, userstate |-> Userstate(FALSE, TRUE),
      rnd |-> RandomDraws(RandDenom - 1)],
     [matched |-> TRUE, userstate |-> Userstate(TRUE, FALSE),
      rnd |-> RandomDraws(0)]}

\* what one run of handleMessage does on a message that does (matched) or
\* does not hold a trigger emote
HandleMessageRun(matched, userstate, rnd) ==
    IF ~matched
    THEN \* no trigger emote: nothing is constructed
         [horns |-> horns, pushed |-> FALSE, obs |-> spawnObs]
    ELSE LET image ==
                 IF userstate.broadcaster THEN "clownImage"
                 ELSE IF userstate.subscriber
                      THEN (IF 2 * rnd.pick > RandDenom THEN "hornImage"
                            ELSE "twitchHornImage")
                      ELSE "textHornImage"
             made == HornNew(canvasContext, images[image], NoOptions, rnd, now,
                             nextId)
         IN  IF made.ok
             THEN [horns |-> Push(horns, made.horn), pushed |-> TRUE,
                   obs |-> [matched |-> TRUE, image |-> images[image].kind,
                            options |-> NoOptions, pushed |-> nextId,
                            error |-> "none"]]
             ELSE \* the constructor's throw leaves handleMessage
                  [horns |-> horns, pushed |-> FALSE,
                   obs |-> [matched |-> TRUE, image |-> images[image].kind,
                            options |-> NoOptions, pushed |-> 0,
                            error |-> made.error]]

\* the chat client delivers a message to handleMessage
HandleMessage ==
    /\ started
    /\ nextId <= MaxSpawns
    /\ now + DefaultMaxTTL <= MaxTime
    /\ \E m \in Messages :
          LET r == HandleMessageRun(m.matched, m.userstate, m.rnd)
          IN  /\ horns' = r.horns
              /\ spawnObs' = r.obs
              /\ nextId' = IF r.pushed THEN nextId + 1 ELSE nextId
    /\ UNCHANGED <<now, started, canvasContext, images, lastTime, rafPending,
                   frameTime, ctxDepth, tick, advanced>>

Next == ClockAdvance \/ Start \/ Draw \/ HandleMessage

Spec == Init /\ [][Next]_vars

\* the frame scheduler runs every queued callback and time passes
FairSpec == Spec /\ WF_vars(Draw) /\ WF_vars(ClockAdvance)

----------------------------------------------------------------------------
(* The Horn class by itself: one object is constructed from any arguments  *)
(* and any results of Math.random(), and update() is called on it.         *)

\* an argument that is no image
NoImage ==
    [name |-> "undefined", kind |-> "undefined", state |-> "broken",
     width |-> 0, height |-> 0]

\* the six results of Math.random() in one run of the constructor, each of
\* them any value (pick is handleMessage's own draw)
AllDraws ==
    {[pick |-> 0, angle |-> a, speed |-> s, side |-> d, ttl |-> t, y |-> y,
      spin |-> r] : a \in Random, s \in Random, d \in Random, t \in Random,
                    y \in Random, r \in Random}

\* the options objects the constructor is called with
Configurations ==
    {NoOptions,
     \* one fixed lifetime
     Options({"minTTL", "maxTTL"}, 0, 0, 1000, 1000, 0),
     \* no lifetime at all
     Options({"minTTL", "maxTTL"}, 0, 0, 0, 0, 0),
     \* a minimum above the default maximum
     Options({"minTTL"}, 0, 0, 6000, 0, 0),
     \* a size and a slower spin
     Options({"width", "height", "maxRotationSpeed"}, 64, 32, 0, 0, 1)}

\* the image and options arguments of the calls: every options object with
\* a decoded image, no options with an undecodable image and with no image
Arguments ==
    {[image |-> Fetched({})["hornImage"], options |-> o] : o \in Configurations}
      \cup {[image |-> Fetched({"textHornImage"})["textHornImage"],
              options |-> NoOptions],
             [image |-> NoImage, options |-> NoOptions]}

\* the deltas update() is called with
Deltas == {k * FrameDelta : k \in 0 .. MaxFrames}

HornInit ==
    /\ now = 0
    /\ started = FALSE
    /\ canvasContext \in {"CanvasRenderingContext2D", "null"}
    /\ images = Fetched({"textHornImage"})
    /\ horns = <<>>
    /\ lastTime = 0
    /\ rafPending = 0
    /\ frameTime = 0
    /\ ctxDepth = 0
    /\ nextId = 1
    /\ tick = NoTick
    /\ spawnObs = NoSpawn
    /\ advanced = [id \in 1 .. MaxSpawns |-> 0]

\* horns.push(new Horn(context, image, options))
Construct ==
    /\ ~spawnObs.matched
    /\ \E arg \in Arguments, rnd \in AllDraws :
          \E made \in {HornNew(canvasContext, arg.image, arg.options, rnd,
                                now, nextId)} :
             /\ horns' = IF made.ok THEN Push(horns, made.horn) ELSE horns
             /\ nextId' = IF made.ok THEN nextId + 1 ELSE nextId
             /\ spawnObs' = [matched |-> TRUE, image |-> arg.image.kind,
                             options |-> arg.options,
                             pushed |-> IF made.ok THEN nextId ELSE 0,
                             error |-> IF made.ok THEN "none" ELSE made.error]
    /\ UNCHANGED <<now, started, canvasContext, images, lastTime, rafPending,
                   frameTime, ctxDepth, tick, advanced>>

\* horn.update(dt) on the constructed horn
Advance ==
    /\ horns # <<>>
    /\ Len(tick.calls) < MaxAdvances
    /\ \E dt \in Deltas :
          /\ horns' = <<Update(horns[1], dt)>>
          /\ tick' = [tick EXCEPT
                        !.ran = TRUE,
                        !.calls = Append(@, UpdateCall(horns[1], dt, ctxDepth))]
          /\ advanced' = [advanced EXCEPT ![horns[1].id] = @ + dt]
    /\ UNCHANGED <<now, started, canvasContext, images, lastTime, rafPending,
                   frameTime, ctxDepth, nextId, spawnObs>>

HornNext == Construct \/ Advance

HornSpec == HornInit /\ [][HornNext]_vars

----------------------------------------------------------------------------
(* What the histories say *)

\* the last run of draw reached its filter (clearRect did not throw)
Pruned == tick.ran /\ tick.error # "TypeError"

\* the identities in a sequence of identities
Members(ids) == {ids[j] : j \in 1 .. Len(ids)}

\* the identities of the live horns
Live == Members(Ids(horns))

\* the i-th horn the last filter looked at was alive at the clock value its
\* shouldUpdate read
AliveAtPrune(i) ==
    tick.reads[i] - tick.before[i].createdAt < tick.before[i].timeToLive

\* the positions in the last tick's calls where horn id is updated
UpdatesOf(id) ==
    {p \in 1 .. Len(tick.calls) :
        tick.calls[p].op = "update" /\ tick.calls[p].id = id}

\* the positions in the last tick's calls of op on the context by horn id
ContextCalls(id, op) ==
    {p \in 1 .. Len(tick.calls) :
        tick.calls[p].op = op /\ tick.calls[p].id = id}

\* the position of identity id in the sequence ids (0 when absent)
IndexIn(ids, id) ==
    IF id \in Members(ids)
    THEN CHOOSE j \in 1 .. Len(ids) : ids[j] = id
    ELSE 0

----------------------------------------------------------------------------
(* C1: right after the prune of a tick, the collection holds exactly the   *)
(* horns of the collection before the prune whose shouldUpdate() was true  *)
(* at the clock value it read: each of them once, and no other.            *)
C1_PruneKeepsExactlyTheAlive ==
    Pruned =>
      /\ \A i \in 1 .. Len(tick.before) :
            (tick.before[i].id \in Members(tick.pruned)) <=> AliveAtPrune(i)
      /\ \A j \in 1 .. Len(tick.pruned) :
            \E i \in 1 .. Len(tick.before) : tick.before[i].id = tick.pruned[j]
      /\ \A j1, j2 \in 1 .. Len(tick.pruned) :
            tick.pruned[j1] = tick.pruned[j2] => j1 = j2

\* a prune of two horns that removed the later one and kept the earlier one
C1_Witness ==
    /\ Pruned
    /\ Len(tick.before) = 2
    /\ tick.pruned = <<tick.before[1].id>>
    /\ ~AliveAtPrune(2)

(* C2: shouldUpdate() is true at every clock value from createdAt up to,   *)
(* not including, createdAt + timeToLive and false at every later one; as  *)
(* the clock moves on, a horn that was not alive is never alive again.     *)
C2_AliveWindow ==
    /\ [](\A i \in 1 .. Len(horns) :
            \A c \in 0 .. MaxClock :
               LET clock == c * ClockStep
                   h == horns[i]
               IN  clock >= h.createdAt =>
                     (ShouldUpdate(h, clock)
                        <=> clock < h.createdAt + h.timeToLive))
    /\ [][\A i \in 1 .. Len(horns) :
            ~ShouldUpdate(horns[i], now) => ~ShouldUpdate(horns[i], now')]_vars

\* the collection holds a horn that is alive and a horn whose lifetime is over
C2_Witness ==
    /\ \E i \in 1 .. Len(horns) : ShouldUpdate(horns[i], now)
    /\ \E i \in 1 .. Len(horns) :
          /\ ~ShouldUpdate(horns[i], now)
          /\ now >= horns[i].createdAt + horns[i].timeToLive

(* C3: a horn whose lifetime is over when a tick's prune looks at it is    *)
(* removed by that prune; a removed horn never comes back; and, as long as *)
(* frames keep being scheduled and time passes, every horn is in the end   *)
(* out of the collection for good.                                         *)
C3_EveryHornIsRemoved ==
    /\ [](Pruned =>
            \A i \in 1 .. Len(tick.before) :
               tick.reads[i] >= tick.before[i].createdAt
                                  + tick.before[i].timeToLive
                 => tick.before[i].id \notin Members(tick.pruned))
    /\ [][\A id \in 1 .. MaxSpawns :
            (id < nextId /\ id \notin Live) => id \notin Members(Ids(horns'))]_vars
    /\ \A id \in 1 .. MaxSpawns : <>[](id \notin Live \/ rafPending = 0)

\* a horn pushed by handleMessage has been removed by a prune that read a
\* clock value at or past the end of its lifetime, and frames are still queued
C3_Witness ==
    /\ Pruned
    /\ rafPending = 1
    /\ \E i \in 1 .. Len(tick.before) :
          /\ tick.reads[i] >= tick.before[i].createdAt
                                + tick.before[i].timeToLive
          /\ tick.before[i].id \notin Live

(* C4: a constructor that rejects its arguments aborts only that spawn:    *)
(* the error does not leave handleMessage.                                 *)
C4_SpawnErrorStaysInside == spawnObs.error = "none"

(* C5: once the driver has started, exactly one frame callback is queued   *)
(* with the scheduler between any two callbacks: every run of draw on a    *)
(* rendering context queues the next one.                                  *)
C5_LoopNeverEnds ==
    (started /\ canvasContext = "CanvasRenderingContext2D") => rafPending = 1

(* C6: in one tick the surviving horns are handled in the order of the     *)
(* collection, update(dt) of a horn directly followed by the calls of its  *)
(* own draw() and only then the next horn's update; the prune keeps the    *)
(* survivors in the order they had.                                        *)
C6_UpdateDrawPairsInOrder ==
    Pruned =>
      /\ \A p, q \in 1 .. Len(tick.calls) :
            p < q => IndexIn(tick.pruned, tick.calls[p].id)
                       <= IndexIn(tick.pruned, tick.calls[q].id)
      /\ \A p \in 1 .. Len(tick.calls) :
            /\ IndexIn(tick.pruned, tick.calls[p].id) > 0
            /\ tick.calls[p].op = "update"
                 <=> (p = 1 \/ tick.calls[p - 1].id # tick.calls[p].id)
            /\ tick.calls[p].op = "save"
                 <=> (p > 1 /\ tick.calls[p - 1].op = "update"
                            /\ tick.calls[p - 1].id = tick.calls[p].id)
      /\ tick.error = "none" =>
            \A j \in 1 .. Len(tick.pruned) :
               /\ Cardinality(UpdatesOf(tick.pruned[j])) = 1
               /\ Cardinality(ContextCalls(tick.pruned[j], "save")) = 1
      /\ \A j1, j2 \in 1 .. Len(tick.pruned) :
            j1 < j2 => IndexIn(Ids(tick.before), tick.pruned[j1])
                         < IndexIn(Ids(tick.before), tick.pruned[j2])

\* a tick that updated and drew two surviving horns
C6_Witness ==
    /\ Pruned
    /\ tick.error = "none"
    /\ Len(tick.pruned) = 2
    /\ Len(tick.calls) > 2

(* C7: every call of draw() saves the context's state once and restores it *)
(* once: each save a tick records is matched by a restore of the same horn *)
(* that brings the saved-state stack back to the depth before the save,    *)
(* however many calls follow each other.                                   *)
C7_DrawKeepsStackDepth ==
    \A p \in 1 .. Len(tick.calls) :
       tick.calls[p].op = "save" =>
          LET id == tick.calls[p].id
          IN  /\ Cardinality(ContextCalls(id, "save")) = 1
              /\ \E q \in ContextCalls(id, "restore") :
                     /\ q > p
                     /\ tick.calls[q].depth = tick.calls[p].depth - 1
              /\ Cardinality(ContextCalls(id, "restore")) = 1

(* C8: draw() leaves the context's saved-state stack as it found it also   *)
(* when drawImage fails: after every tick the stack is as deep as before.  *)
C8_StackRestoredOnFailure == tick.ran => ctxDepth = tick.depth

(* C9: every update(dt) the driver makes gets a dt that is not negative,   *)
(* the first tick's included (stated of the ticks that ran to their end).  *)
C9_DeltaNeverNegative ==
    tick.error = "none" =>
       \A p \in 1 .. Len(tick.calls) :
          tick.calls[p].op = "update" => tick.calls[p].dt >= 0

(* C10: every update of one tick gets the same dt, the tick's timestamp    *)
(* minus lastTime as the tick found it; lastTime is the timestamp of the   *)
(* last tick that ran to its end, it changes only when the driver starts   *)
(* (to the wall clock) and at the end of a tick (to the tick's timestamp), *)
(* and handleMessage leaves it alone.                                      *)
C10_DeltaIsTimeSinceLastTick ==
    /\ [](/\ \A p \in 1 .. Len(tick.calls) :
               tick.calls[p].op = "update"
                  => tick.calls[p].dt = tick.time - tick.lastTime
          /\ (tick.ran /\ tick.error = "none") => lastTime = tick.time)
    /\ [][/\ lastTime' # lastTime =>
               \/ ~started /\ started' /\ lastTime' = now
               \/ /\ tick'.ran /\ tick'.error = "none"
                  /\ tick'.lastTime = lastTime
                  /\ lastTime' = tick'.time
                  /\ spawnObs' = spawnObs
          /\ (tick'.ran /\ tick' # tick) => tick'.lastTime = lastTime
          /\ spawnObs' # spawnObs => lastTime' = lastTime]_vars

\* a tick whose timestamp lies before lastTime updated a horn
C10_Witness ==
    /\ tick.ran
    /\ tick.time < tick.lastTime
    /\ \E p \in 1 .. Len(tick.calls) : tick.calls[p].op = "update"

----------------------------------------------------------------------------
(* The claims about the Horn class by itself *)

Abs(n) == IF n < 0 THEN 0 - n ELSE n

\* the deltas the claims about update() range over
ClaimDeltas == Deltas \cup {ClockStep}

C12_AdvanceZeroIsNoOp ==
    /\ [](\A i \in 1 .. Len(horns) : Update(horns[i], 0) = horns[i])
    /\ [][(/\ Len(tick'.calls) = Len(tick.calls) + 1
           /\ tick'.calls[Len(tick'.calls)].op = "update"
           /\ tick'.calls[Len(tick'.calls)].dt = 0) => horns' = horns]_vars

\* update(0) has been called on a moving, spinning horn
C12_Witness ==
    /\ horns # <<>>
    /\ Len(tick.calls) > 0
    /\ tick.calls[Len(tick.calls)].op = "update"
    /\ tick.calls[Len(tick.calls)].dt = 0
    /\ horns[1].velocity.x # 0
    /\ horns[1].rotationSpeed # 0

\* a horn has been constructed and update() has not been called on it
Fresh == horns # <<>> /\ tick.calls = <<>>

\* the lifetime range the constructor was called with
MinTTL == Opt(spawnObs.options, "minTTL", DefaultMinTTL)
MaxTTL == Opt(spawnObs.options, "maxTTL", DefaultMaxTTL)

(* C13 as the claim states it: for every configuration with minTTL <=      *)
(* maxTTL and every result of Math.random(), the constructed horn has      *)
(* minTTL <= timeToLive < maxTTL, the configuration minTTL = maxTTL        *)
(* included.                                                               *)
C13_LifetimeInHalfOpenRange ==
    (horns # <<>> /\ MinTTL <= MaxTTL) =>
       /\ MinTTL <= horns[1].timeToLive
       /\ horns[1].timeToLive < MaxTTL

(* C13 amended: for every configuration with minTTL <= maxTTL and every    *)
(* result of Math.random(), minTTL <= timeToLive <= maxTTL; timeToLive is  *)
(* below maxTTL when minTTL < maxTTL and is minTTL when minTTL = maxTTL.   *)
C13_LifetimeInRange ==
    (horns # <<>> /\ MinTTL <= MaxTTL) =>
       /\ MinTTL <= horns[1].timeToLive
       /\ horns[1].timeToLive <= MaxTTL
       /\ MinTTL < MaxTTL => horns[1].timeToLive < MaxTTL
       /\ MinTTL = MaxTTL => horns[1].timeToLive = MinTTL

\* a horn built with minTTL = maxTTL = 1000 lives 1000 ms
C13_Witness ==
    /\ horns # <<>>
    /\ "minTTL" \in spawnObs.options.given
    /\ MinTTL = MaxTTL
    /\ horns[1].timeToLive = 1000

(* C14: every horn the constructor returns, whatever options object it was *)
(* given, has timeToLive > 0.                                              *)
C14_LifetimeIsPositive ==
    \A i \in 1 .. Len(horns) : horns[i].timeToLive > 0

(* C15: the constructor throws exactly when the context is no              *)
(* CanvasRenderingContext2D or the image is no HTMLImageElement; a call    *)
(* that throws leaves the collection as it was, a call that returns has    *)
(* pushed one horn with all its fields.                                    *)
C15_ConstructorRejectsBadHandles ==
    spawnObs.matched =>
       /\ spawnObs.error = "TypeError"
            <=> (\/ canvasContext # "CanvasRenderingContext2D"
                 \/ spawnObs.image # "HTMLImageElement")
       /\ spawnObs.error # "none" =>
            (horns = <<>> /\ nextId = 1 /\ spawnObs.pushed = 0)
       /\ spawnObs.error = "none" =>
            /\ Len(horns) = 1
            /\ spawnObs.pushed = horns[1].id
            /\ DOMAIN horns[1] =
                 {"id", "image", "width", "height", "createdAt", "timeToLive",
                  "position", "velocity", "rotationSpeed", "rotation"}

\* a call with a rendering context and without an image was rejected
C15_Witness ==
    /\ spawnObs.matched
    /\ canvasContext = "CanvasRenderingContext2D"
    /\ spawnObs.image = "undefined"
    /\ spawnObs.error = "TypeError"
    /\ horns = <<>>

(* C16: a horn is constructed at x = 0 or x = canvasWidth and at a y       *)
(* between a quarter and three quarters of canvasHeight, whatever          *)
(* Math.random() returns.                                                  *)
C16_SpawnPosition ==
    Fresh =>
       /\ horns[1].position.x \in {0, CanvasWidth * Fraction}
       /\ 4 * horns[1].position.y >= CanvasHeight * Fraction
       /\ 4 * horns[1].position.y <= 3 * CanvasHeight * Fraction

\* a horn constructed at the right edge, a quarter of the height down
C16_Witness ==
    /\ Fresh
    /\ horns[1].position.x = CanvasWidth * Fraction
    /\ 4 * horns[1].position.y = CanvasHeight * Fraction

(* C19: a horn constructed at x = 0 does not move to the left and a horn   *)
(* constructed at x = canvasWidth does not move to the right, whatever     *)
(* Math.random() returns.                                                  *)
C19_LaunchTowardOppositeEdge ==
    Fresh =>
       /\ horns[1].position.x = 0 => horns[1].velocity.x >= 0
       /\ horns[1].position.x = CanvasWidth * Fraction
            => horns[1].velocity.x <= 0

\* a horn constructed at the right edge that moves to the left
C19_Witness ==
    /\ Fresh
    /\ horns[1].position.x = CanvasWidth * Fraction
    /\ horns[1].velocity.x < 0

----------------------------------------------------------------------------
(* The claims about the collection over spawns and ticks *)

\* the horn with identity id in the sequence hs
HornOf(hs, id) == hs[IndexIn(Ids(hs), id)]

(* C17: a spawn that succeeds puts one new horn at the end of the          *)
(* collection and leaves the others where they were; a horn appears in no  *)
(* other way; a horn leaves the collection only in a tick whose prune      *)
(* looked at it and found its lifetime over; and the horns that stay keep  *)
(* their order, however spawns and ticks follow each other.                *)
C17_PruneAloneRemovesSpawnAppends ==
    [][/\ nextId' # nextId =>
            /\ nextId' = nextId + 1
            /\ Len(horns') = Len(horns) + 1
            /\ SubSeq(horns', 1, Len(horns)) = horns
            /\ horns'[Len(horns')].id = nextId
            /\ nextId \notin Live
       /\ Members(Ids(horns')) \ Live # {} => nextId' # nextId
       /\ \A id \in Live \ Members(Ids(horns')) :
            /\ tick'.ran /\ tick'.error # "TypeError"
            /\ Ids(tick'.before) = Ids(horns)
            /\ \E i \in 1 .. Len(tick'.before) :
                  /\ tick'.before[i].id = id
                  /\ tick'.reads[i] - tick'.before[i].createdAt
                        >= tick'.before[i].timeToLive
       /\ \A id1, id2 \in Live \cap Members(Ids(horns')) :
            IndexIn(Ids(horns), id1) < IndexIn(Ids(horns), id2)
               => IndexIn(Ids(horns'), id1) < IndexIn(Ids(horns'), id2)
       /\ Len(horns') = Cardinality(Members(Ids(horns')))]_vars

\* the second horn was pushed behind the first, and a prune that looked at
\* both removed the first and kept the second
C17_Witness ==
    /\ Pruned
    /\ Len(tick.before) = 2
    /\ tick.before[1].id = 1
    /\ Ids(horns) = <<2>>
    /\ spawnObs.pushed = 2

(* C18: velocity, rotationSpeed, width, height, createdAt and timeToLive   *)
(* (and the image) of a horn never change while it is in the collection:   *)
(* update() changes position and rotation only, whatever its delta, and    *)
(* what shouldUpdate() answers at a clock value does not depend on the     *)
(* updates the horn got.                                                   *)
C18_FieldsFixedAtSpawn ==
    /\ [][\A id \in Live \cap Members(Ids(horns')) :
             [HornOf(horns', id) EXCEPT
                 !.position = HornOf(horns, id).position,
                 !.rotation = HornOf(horns, id).rotation]
               = HornOf(horns, id)]_vars
    /\ [](\A i \in 1 .. Len(horns) : \A dt \in ClaimDeltas :
             /\ [Update(horns[i], dt) EXCEPT
                    !.position = horns[i].position,
                    !.rotation = horns[i].rotation] = horns[i]
             /\ \A k \in 0 .. MaxClock :
                   ShouldUpdate(Update(horns[i], dt), k * ClockStep)
                      <=> ShouldUpdate(horns[i], k * ClockStep))

\* a moving horn that the last tick updated with a delta above zero
C18_Witness ==
    /\ Pruned
    /\ \E p \in 1 .. Len(tick.calls) :
          /\ tick.calls[p].op = "update"
          /\ tick.calls[p].dt > 0
          /\ tick.calls[p].id \in Live
          /\ HornOf(horns, tick.calls[p].id).velocity.x # 0
          /\ HornOf(horns, tick.calls[p].id).position.x
                \notin {0, CanvasWidth * Fraction}

(* C20: after every tick, the deltas a horn's update() got since the horn  *)
(* was constructed add up to no more than the time that has passed since   *)
(* its createdAt.                                                          *)
C20_AdvancedNoLongerThanAlive ==
    \A i \in 1 .. Len(horns) :
       advanced[horns[i].id] <= now - horns[i].createdAt

=============================================================================
